---- MODULE Spec2Model ----
(***************************************************************************)
(* Verification model of the pirate-portfolio scene:                       *)
(*   - utils/ObjectPool.ts with its pooled members (entities/Chest.ts and  *)
(*     the pooled entities/Island.ts),                                     *)
(*   - the project bottles of world.ts (proximity opens a link),           *)
(*   - the 'E' interaction with the experience islands of world.ts,        *)
(*   - the ship's stamina, thrust, yaw and buoyancy (entities/Ship.ts) and *)
(*     the chest's buoyancy step,                                          *)
(*   - the distance-based recycling of the World with object pools,        *)
(*   - the wave set-up of utils/GerstnerWater.ts,                          *)
(*   - start-up: main.ts and World.init of world.ts,                       *)
(*   - the project card of a chest and the floating tween of an island,    *)
(*   - the background audio of world.ts and the steps of one frame.        *)
(* Each part has its own specification; the variables of the other parts   *)
(* stay at their initial values.                                           *)
(***************************************************************************)
EXTENDS Integers, Sequences, FiniteSets, TLC

(***************************************************************************)
(* Bounds of the model.                                                    *)
(***************************************************************************)
MaxInitialSize == 3
MaxMaxSize == 3
MaxGets == 7

MaxMembers == IF MaxInitialSize > MaxMaxSize THEN MaxInitialSize ELSE MaxMaxSize
Ids == 1..MaxMembers
Kinds == {"chest", "island"}

VARIABLES
  pool,        \* ObjectPool.pool: the member ids in the pool's internal order
  members,     \* id -> the fields of the pooled Chest / Island with that id
  maxSize,     \* ObjectPool.maxSize
  initialSize, \* the constructor's initialSize argument
  kind,        \* what the factory builds: "chest" or "island"
  last,        \* history: the last call made on the pool or on a member
  history,     \* history: ids returned by get() since construction, while
               \* nothing but get()/update() has been called
  fresh,       \* history: only get()/update() called since construction
  actOrder,    \* history: ids ordered by their latest activate() call
  trackOrder   \* history: whether actOrder is recorded in this behaviour

poolVars == <<pool, members, maxSize, initialSize, kind, last, history, fresh,
              actOrder, trackOrder>>

VARIABLES
  triggered,   \* Bottle.triggered of each project bottle
  dist,        \* distance ship - bottle, as the last frame measured it
  opens,       \* history: window.open calls made for each bottle's link
  entries,     \* history: how often the ship came within reach of a bottle
  reopened     \* history: window.open was called for a bottle that was
               \* already triggered when the proximity check began

bottleVars == <<triggered, dist, opens, entries, reopened>>

VARIABLES
  islands,         \* World.islands: the positions of the islands, in order
  shipPos,         \* Ship.position
  nearestIsland,   \* World.nearestIsland: an index into islands, 0 for null
  loopStarted,     \* animate() has run at least once
  controlsEnabled, \* ShipControls.enabled
  overlaysOpen,    \* scroll overlays in the document, not yet closing
  overlaysFading,  \* scroll overlays with a pending removal timer
  lastEvent        \* history: the event handled last and the interact()
                   \* calls its handlers made

interactionVars == <<islands, shipPos, nearestIsland, loopStarted,
                     controlsEnabled, overlaysOpen, overlaysFading, lastEvent>>

VARIABLES
  stamina,            \* Ship.stamina, in units of 1/StaminaScale
  isBoosting,         \* Ship.isBoosting
  movementDirection,  \* Ship.movementDirection: the four flags
  body,               \* Ship.body: height, velocity, yaw angular velocity
  lastShip            \* history: the last call made on the ship

shipVars == <<stamina, isBoosting, movementDirection, body, lastShip>>

VARIABLES
  buoyancy            \* the body a buoyancy step was applied to, and its result

buoyancyVars == <<buoyancy>>

VARIABLES
  poolingKind,     \* what the pool of the distance pass holds: island or chest
  playerPosition,  \* World.playerPosition
  entities,        \* the pooled entities, in the pool's order
  placed,          \* generateInitialEntities() has run
  lastPass         \* history: the members the last placement positioned

poolingVars == <<poolingKind, playerPosition, entities, placed, lastPass>>

VARIABLES
  waveOptions,     \* GerstnerWaterOptions.waves given to the constructor
  gerstnerWater            \* the GerstnerWater: not built, built with waves, or error

waterVars == <<waveOptions, gerstnerWater>>

VARIABLES
  initPc,          \* where World.init() is: the load it awaits, or its outcome
  built,           \* what init() has constructed so far
  textures,        \* the texture load each Bottle constructor started
  chain,           \* the promise chain of main.ts: init().catch().then()
  frames           \* how many times animate() has run

startVars == <<initPc, built, textures, chain, frames>>

VARIABLES
  cardChest,       \* the fields of one Chest whose project card is shown
  cardsShown,      \* project cards of that chest in the document, displayed
  cardsHidden,     \* project cards in the document with display: none
  lastCard         \* history: the last call or event on the chest or a card

cardVars == <<cardChest, cardsShown, cardsHidden, lastCard>>

VARIABLES
  floating         \* one pooled Island: active, its floatingTween playing,
                   \* and the running tweens it no longer refers to

floatingVars == <<floating>>

VARIABLES
  attempts,        \* setupBackgroundAudio: the loads started so far, each
                   \* with its source index and its outcome
  contextState,    \* ambientSound.context.state
  ambientStarted,  \* World.ambientStarted
  isPlaying,       \* ambientSound.isPlaying
  speed,           \* ship.getCurrentSpeed() at the last frame, in tenths
  played           \* history: play() calls, each with whether a buffer was set

audioVars == <<attempts, contextState, ambientStarted, isPlaying, speed,
               played>>

VARIABLES
  worldVersion,    \* which World runs: with object pools, or world.ts
  shaderCompiled,  \* the ocean material's userData.shader is set
  uTime,           \* the wave time uniform, in milliseconds
  physicsSteps,    \* how often world.step(timeStep) has run
  lastSteps        \* history: the steps the last animate() ran, in order

frameVars == <<worldVersion, shaderCompiled, uTime, physicsSteps, lastSteps>>

\* what the actions of one part leave alone
notPoolVars == <<bottleVars, interactionVars, shipVars, buoyancyVars,
                 poolingVars, waterVars, startVars, cardVars, floatingVars,
                 audioVars, frameVars>>
notBottleVars == <<poolVars, interactionVars, shipVars, buoyancyVars,
                   poolingVars, waterVars, startVars, cardVars,
                   floatingVars, audioVars, frameVars>>
notInteractionVars == <<poolVars, bottleVars, shipVars, buoyancyVars,
                        poolingVars, waterVars, startVars, cardVars,
                        floatingVars, audioVars, frameVars>>
notShipVars == <<poolVars, bottleVars, interactionVars, buoyancyVars,
                 poolingVars, waterVars, startVars, cardVars, floatingVars,
                 audioVars, frameVars>>
notBuoyancyVars == <<poolVars, bottleVars, interactionVars, shipVars,
                     poolingVars, waterVars, startVars, cardVars,
                     floatingVars, audioVars, frameVars>>
notPoolingVars == <<poolVars, bottleVars, interactionVars, shipVars,
                    buoyancyVars, waterVars, startVars, cardVars,
                    floatingVars, audioVars, frameVars>>
notWaterVars == <<poolVars, bottleVars, interactionVars, shipVars,
                  buoyancyVars, poolingVars, startVars, cardVars,
                  floatingVars, audioVars, frameVars>>
notStartVars == <<poolVars, bottleVars, interactionVars, shipVars,
                  buoyancyVars, poolingVars, waterVars, cardVars,
                  floatingVars, audioVars, frameVars>>
notCardVars == <<poolVars, bottleVars, interactionVars, shipVars,
                 buoyancyVars, poolingVars, waterVars, startVars,
                 floatingVars, audioVars, frameVars>>
notFloatingVars == <<poolVars, bottleVars, interactionVars, shipVars,
                     buoyancyVars, poolingVars, waterVars, startVars,
                     cardVars, audioVars, frameVars>>
notAudioVars == <<poolVars, bottleVars, interactionVars, shipVars,
                  buoyancyVars, poolingVars, waterVars, startVars,
                  cardVars, floatingVars, frameVars>>
notFrameVars == <<poolVars, bottleVars, interactionVars, shipVars,
                  buoyancyVars, poolingVars, waterVars, startVars,
                  cardVars, floatingVars, audioVars>>

vars == <<poolVars, bottleVars, interactionVars, shipVars, buoyancyVars,
          poolingVars, waterVars, startVars, cardVars, floatingVars,
          audioVars, frameVars>>

(***************************************************************************)
(* Chest (entities/Chest.ts) and pooled Island (entities/Island.ts).       *)
(* inScene: scene.children contains the model; inWorld: world.bodies       *)
(* contains the body.  particlesVisible: Chest.particles.visible.          *)
(***************************************************************************)
NewChest ==
  [active |-> FALSE, inScene |-> FALSE, inWorld |-> FALSE,
   opened |-> FALSE, particlesVisible |-> FALSE]

NewIsland ==
  [active |-> FALSE, inScene |-> FALSE, inWorld |-> FALSE,
   opened |-> FALSE, particlesVisible |-> FALSE]

ChestOpenChest(m) ==
  IF m.opened THEN m
  ELSE [m EXCEPT !.opened = TRUE, !.particlesVisible = TRUE]

ChestCloseChest(m) ==
  IF ~m.opened THEN m
  ELSE [m EXCEPT !.opened = FALSE, !.particlesVisible = FALSE]

ChestInteract(m) == ChestOpenChest(m)

ChestResetKeepsOpened(m) == [m EXCEPT !.particlesVisible = FALSE]

ChestResetDeactivates(m) ==
  [m EXCEPT !.opened = FALSE, !.particlesVisible = FALSE, !.active = FALSE,
            !.inScene = FALSE, !.inWorld = FALSE]

ChestReset(m) == [m EXCEPT !.opened = FALSE, !.particlesVisible = FALSE]

ChestActivateNoBody(m) ==
  IF m.active THEN m
  ELSE [m EXCEPT !.active = TRUE, !.inScene = TRUE]

ChestActivate(m) ==
  IF m.active THEN m
  ELSE [m EXCEPT !.active = TRUE, !.inScene = TRUE, !.inWorld = TRUE]

ChestDeactivateToggles(m) ==
  IF ~m.active
  THEN [m EXCEPT !.active = TRUE, !.inScene = TRUE, !.inWorld = TRUE]
  ELSE ChestCloseChest([m EXCEPT !.active = FALSE, !.inScene = FALSE,
                                 !.inWorld = FALSE])

ChestDeactivate(m) ==
  IF ~m.active THEN m
  ELSE ChestCloseChest([m EXCEPT !.active = FALSE, !.inScene = FALSE,
                                 !.inWorld = FALSE])

\* Island.reset() draws a new seed, builds a new floating tween and a new
\* model rotation; none of the fields recorded here is assigned.
IslandReset(m) == m

IslandActivate(m) ==
  IF m.active THEN m
  ELSE [m EXCEPT !.active = TRUE, !.inScene = TRUE, !.inWorld = TRUE]

IslandDeactivate(m) ==
  IF ~m.active THEN m
  ELSE [m EXCEPT !.active = FALSE, !.inScene = FALSE, !.inWorld = FALSE]

\* Poolable, dispatched on what the factory builds.
Factory(k) == IF k = "chest" THEN NewChest ELSE NewIsland
Activate(k, m) == IF k = "chest" THEN ChestActivate(m) ELSE IslandActivate(m)
Deactivate(k, m) == IF k = "chest" THEN ChestDeactivate(m) ELSE IslandDeactivate(m)
Reset(k, m) == IF k = "chest" THEN ChestReset(m) ELSE IslandReset(m)

(***************************************************************************)
(* ObjectPool (utils/ObjectPool.ts).                                       *)
(***************************************************************************)
CreateObject(k) == Deactivate(k, Factory(k))

\* The constructor pushes initialSize objects, whatever maxSize is.
ConstructorPool(init) == [i \in 1..init |-> i]

getTotalCount == Len(pool)

getActiveCount == Cardinality({j \in 1..Len(pool) : members[pool[j]].active})

\* pool.find(obj => !obj.isActive()): the first inactive member, 0 if none.
FirstInactive(p, ms) ==
  IF \E j \in 1..Len(p) : ~ms[p[j]].active
  THEN p[CHOOSE j \in 1..Len(p) :
            /\ ~ms[p[j]].active
            /\ \A h \in 1..(j - 1) : ms[p[h]].active]
  ELSE 0

NewestIndex(p) == Len(p)

\* const oldestObj = this.pool[0]  (1-based here)
OldestIndex(p) == 1

\* if (this.pool.length < this.maxSize)
MayGrow(p, max) == Len(p) < max

RotateNot(p) == p

\* this.pool.push(this.pool.shift()!)
Rotate(p) == Append(Tail(p), Head(p))

GrowObjectNoActivate(k) == CreateObject(k)

\* const newObj = this.createObject(); ...; newObj.activate()
GrowObject(k) == Activate(k, CreateObject(k))

\* oldestObj.reset(); oldestObj.activate()
RecycleObject(k, m) == Activate(k, Reset(k, m))

\* History bookkeeping ---------------------------------------------------
\* last.pre is the member last.id as it was when the call was made.
NoCall == [op |-> "none", id |-> 0, pre |-> NewChest,
           path |-> "none", head |-> 0, lra |-> 0, len |-> 0]

Call(op, id) ==
  [op |-> op, id |-> id,
   pre |-> IF id = 0 THEN NewChest ELSE members[id],
   path |-> "none", head |-> 0, lra |-> 0, len |-> Len(pool)]

GetCall(id, path) ==
  [op |-> "get", id |-> id,
   pre |-> IF id = 0 THEN NewChest ELSE members[id],
   path |-> path,
   head |-> IF Len(pool) = 0 THEN 0 ELSE Head(pool),
   lra |-> IF Len(actOrder) = 0 THEN 0 ELSE Head(actOrder),
   len |-> Len(pool)]

Without(s, id) == SelectSeq(s, LAMBDA x : x # id)

\* actOrder after an activate() call on id
Activated(id) ==
  IF trackOrder THEN Append(Without(actOrder, id), id) ELSE actOrder

NotFresh == fresh' = FALSE /\ history' = << >>
Config == <<maxSize, initialSize, kind, trackOrder>>

(***************************************************************************)
(* Project bottles (world.ts, entities/Bottle.ts).                         *)
(***************************************************************************)
MaxEntries == 2
MaxOpens == 2

NumBottles == 3
bottleDistance == 20
Bottles == 1..NumBottles

\* Distances the ship can have to a bottle when a frame measures them; the
\* ship sails and the bottles drift, so each frame may find any of them.
DistanceSamples == {5, 19, 20, 21, 300}

\* new Bottle(...): triggered = false; the ship starts far from every bottle.
BottlesInit ==
  /\ triggered = [b \in Bottles |-> FALSE]
  /\ dist = [b \in Bottles |-> 300]
  /\ opens = [b \in Bottles |-> 0]
  /\ entries = [b \in Bottles |-> 0]
  /\ reopened = FALSE

BottlesIdle == BottlesInit

OpensLinkAlways(trig, d, b) == d[b] < bottleDistance

\* checkProjectBottles, one bottle: skipped when triggered, else opened when
\* the ship is closer than bottleDistance.
OpensLink(trig, d, b) == ~trig[b] /\ d[b] < bottleDistance

Enters(old, new, b) == old[b] >= bottleDistance /\ new[b] < bottleDistance

\* One frame of World.animate, as far as the bottles are concerned: the
\* ship and the bottles move, then updateUI() runs checkProjectBottles().
BottleFrame ==
  \E d \in [Bottles -> DistanceSamples] :
    /\ \A b \in Bottles : Enters(dist, d, b) => entries[b] < MaxEntries
    /\ \A b \in Bottles : OpensLink(triggered, d, b) => opens[b] < MaxOpens
    /\ dist' = d
    /\ entries' = [b \in Bottles |->
                     IF Enters(dist, d, b) THEN entries[b] + 1 ELSE entries[b]]
    /\ triggered' = [b \in Bottles |-> triggered[b] \/ OpensLink(triggered, d, b)]
    /\ opens' = [b \in Bottles |->
                   IF OpensLink(triggered, d, b) THEN opens[b] + 1 ELSE opens[b]]
    /\ reopened' = (reopened \/ \E b \in Bottles :
                                   OpensLink(triggered, d, b) /\ triggered[b])
    /\ UNCHANGED notBottleVars

(***************************************************************************)
(* 'E' interaction with the experience islands (world.ts with islands,     *)
(* controls/ShipControls.ts, entities/Island.ts).                          *)
(***************************************************************************)
MaxOverlays == 2

interactionDistance == 30
controlsIslandDistance == 15

\* createExperienceIslands: two islands, or none where islands are disabled
ExperienceIslands == << <<200, 0, 50>>, <<-250, 0, -150>> >>
NoIslands == << >>

ShipStart == <<0, 10, 0>>

\* Places the ship can be in when a frame ends.
ShipPositions ==
  { ShipStart,
    <<200, 0, 40>>,     \* 10 from the first island
    <<200, 0, 21>>,     \* 29
    <<200, 0, 20>>,     \* 30
    <<182, 0, 26>>,     \* 30
    <<200, 0, 19>>,     \* 31
    <<200, 0, 90>>,     \* 40
    <<-250, 0, -140>>,  \* 10 from the second island
    <<-250, 0, -120>> } \* 30

Sq(x) == x * x

\* Vector3.distanceTo, squared
DistSq(a, b) == Sq(a[1] - b[1]) + Sq(a[2] - b[2]) + Sq(a[3] - b[3])

\* distance < limit, for the distance whose square is d2
Closer(d2, limit) == d2 < Sq(limit)

RECURSIVE NearestFrom(_, _, _, _, _)
\* the loop of findNearestIsland from island i on: best is the nearest so
\* far (0 for null), bestSq its squared distance (-1 for Infinity)
NearestFrom(ship, isl, i, best, bestSq) ==
  IF i > Len(isl) THEN best
  ELSE LET d2 == DistSq(ship, isl[i]) IN
       IF bestSq = -1 \/ d2 < bestSq
       THEN NearestFrom(ship, isl, i + 1, i, d2)
       ELSE NearestFrom(ship, isl, i + 1, best, bestSq)

FindNearestIsland(ship, isl) == NearestFrom(ship, isl, 1, 0, -1)

InteractionInRangeInclusive(d2) == d2 <= Sq(interactionDistance)

\* if (distance < this.interactionDistance)
InteractionInRange(d2) == Closer(d2, interactionDistance)

\* World.handleInteraction: the island interact() is called on, 0 for none
HandleInteraction(ship, isl, nearest) ==
  IF nearest = 0 THEN 0
  ELSE IF InteractionInRange(DistSq(ship, isl[nearest])) THEN nearest
  ELSE 0

\* The camera is never added to the scene: camera.parent is null.
cameraInScene == FALSE

\* Islands whose model carries userData.entity: Island never sets it.
TaggedIslands(isl) == {}

\* ShipControls.handleInteraction: the island interact() is called on
ControlsHandleInteraction(ship, isl) ==
  IF ~cameraInScene THEN 0
  ELSE LET near == {i \in TaggedIslands(isl) :
                      Closer(DistSq(ship, isl[i]), controlsIslandDistance)} IN
       IF near = {} THEN 0
       ELSE CHOOSE i \in near :
              \A j \in near : DistSq(ship, isl[i]) <= DistSq(ship, isl[j])

Keys == {"e", "E", "Escape", "w"}

Event(type, key, calls, target) ==
  [type |-> type, key |-> key, calls |-> calls, target |-> target]

\* The world once init() has resolved: listeners installed, no frame yet.
InteractionInitWith(isl) ==
  /\ islands = isl
  /\ shipPos = ShipStart
  /\ nearestIsland = 0
  /\ loopStarted = FALSE
  /\ controlsEnabled = TRUE
  /\ overlaysOpen = 0
  /\ overlaysFading = 0
  /\ lastEvent = Event("none", "", 0, 0)

InteractionInit ==
  \E isl \in {ExperienceIslands, NoIslands} : InteractionInitWith(isl)

InteractionIdle == InteractionInitWith(NoIslands)

\* World.animate: the physics step and ship.update() move the ship, then
\* findNearestIsland() runs.  main.ts calls animate() as soon as init() has
\* resolved, before any event can be delivered.
InteractionFrame ==
  /\ \E p \in ShipPositions :
       /\ shipPos' = p
       /\ nearestIsland' = FindNearestIsland(p, islands)
  /\ loopStarted' = TRUE
  /\ lastEvent' = Event("frame", "", 0, 0)
  /\ UNCHANGED <<islands, controlsEnabled, overlaysOpen, overlaysFading>>
  /\ UNCHANGED notInteractionVars

\* A keydown event: the listeners run in the order they were added,
\* ShipControls' (createShip) before World's (setupEventListeners) before
\* the Escape listeners of the overlays (Island.interact).
KeyDown(key) ==
  /\ loopStarted
  /\ LET byControls == IF key = "e" /\ controlsEnabled
                       THEN ControlsHandleInteraction(shipPos, islands) ELSE 0
         byWorld == IF key \in {"e", "E"}
                    THEN HandleInteraction(shipPos, islands, nearestIsland)
                    ELSE 0
         calls == (IF byControls # 0 THEN 1 ELSE 0) + (IF byWorld # 0 THEN 1 ELSE 0)
         inDocument == overlaysOpen + overlaysFading
     IN
     /\ overlaysOpen + overlaysFading + calls <= MaxOverlays
     /\ IF key = "Escape"
        THEN \* every overlay's close button is clicked; controls resume if
             \* there was an overlay
             /\ overlaysOpen' = 0
             /\ overlaysFading' = inDocument
             /\ controlsEnabled' = (controlsEnabled \/ inDocument > 0)
        ELSE /\ overlaysOpen' = overlaysOpen + calls
             /\ overlaysFading' = overlaysFading
             /\ controlsEnabled' = (controlsEnabled /\ calls = 0)
     /\ lastEvent' = Event("keydown", key, calls,
                           IF byWorld # 0 THEN byWorld ELSE byControls)
  /\ UNCHANGED <<islands, shipPos, nearestIsland, loopStarted>>
  /\ UNCHANGED notInteractionVars

\* A mouse click on the close button of an overlay: it starts to fade out.
ClickClose ==
  /\ overlaysOpen > 0
  /\ overlaysOpen' = overlaysOpen - 1
  /\ overlaysFading' = overlaysFading + 1
  /\ lastEvent' = Event("click", "", 0, 0)
  /\ UNCHANGED <<islands, shipPos, nearestIsland, loopStarted, controlsEnabled>>
  /\ UNCHANGED notInteractionVars

\* setTimeout(() => scrollOverlay.remove(), 500)
RemoveOverlay ==
  /\ overlaysFading > 0
  /\ overlaysFading' = overlaysFading - 1
  /\ lastEvent' = Event("timeout", "", 0, 0)
  /\ UNCHANGED <<islands, shipPos, nearestIsland, loopStarted, controlsEnabled,
                 overlaysOpen>>
  /\ UNCHANGED notInteractionVars

(***************************************************************************)
(* The ship (entities/Ship.ts): stamina, boost, thrust, yaw and buoyancy.  *)
(* Numbers are fixed point: stamina in units of 1/StaminaScale, time in    *)
(* half seconds, heights and velocities in units of 1/HeightScale, the     *)
(* submersion ratio in units of 1/RatioScale, the yaw rate in units of     *)
(* rotationSpeed/YawScale.                                                 *)
(***************************************************************************)
StaminaScale == 20
HeightScale == 100
RatioScale == 1000
YawScale == 1000

\* staminaDrainRate = 0.2 and staminaRegenRate = 0.1 per second, in stamina
\* units per half second
staminaDrainRate == 2
staminaRegenRate == 1
\* the 0.1 of setBoost, in stamina units
boostThreshold == StaminaScale \div 10
\* acceleration = 15, boostMultiplier = 1.8 (in tenths), mass = 10
acceleration == 15
boostMultiplier == 18
shipMass == 10
\* rotationSpeed, in yaw units
rotationSpeed == YawScale
\* shape.halfExtents.y = 3, clearance = 2, lerpFactor = 0.01 (in percent)
shipHalfExtentY == 3
clearance == 2
lerpPercent == 1
\* gravity.y = -9.82 (in hundredths), buoyancyMultiplier = 8,
\* verticalDamping = 0.8 and dragCoeff = 1.5 (in tenths)
gravityY == -982
buoyancyMultiplier == 8
verticalDamping == 8
dragCoeff == 15

Max(a, b) == IF a >= b THEN a ELSE b
Min(a, b) == IF a <= b THEN a ELSE b
Abs(a) == IF a < 0 THEN -a ELSE a

\* n / d rounded toward zero, d > 0
Quot(n, d) == IF n >= 0 THEN n \div d ELSE -((-n) \div d)

\* Math.max(0, Math.min(1, n / d)) as a ratio in units of 1/RatioScale
Clamp01(n, d) == Max(0, Min(RatioScale, Quot(n * RatioScale, d)))

Directions == {"forward", "backward", "left", "right"}

\* deltaTime values of a frame, in half seconds: none, short, huge
DeltaTimes == {0, 1, 1000}

ShipBody(y, vh, vy, yaw) == [y |-> y, vh |-> vh, vy |-> vy, yaw |-> yaw]

\* what world.step() can leave the body with, and the water level under it:
\* high above the water at rest, keel on the waterline, hull half and
\* wholly under water
BodySamples ==
  { [body |-> ShipBody(10 * HeightScale, 0, 0, 0), water |-> 0],
    [body |-> ShipBody(3 * HeightScale, 300, -200, -1000), water |-> 0],
    [body |-> ShipBody(0, 300, -200, -5), water |-> 0],
    [body |-> ShipBody(0, 0, 200, 1000), water |-> 4 * HeightScale] }

NoFlags == [d \in Directions |-> FALSE]

ShipSubmergedNoCeiling(y, water) ==
  Max(0, Quot((water - (y - shipHalfExtentY * HeightScale)) * RatioScale,
              shipHalfExtentY * HeightScale * 2))

\* applyBuoyancy: depth = waterLevel - (y - halfH);
\* submerged = max(0, min(1, depth / (halfH * 2)))
ShipSubmerged(y, water) ==
  Clamp01(water - (y - shipHalfExtentY * HeightScale),
          shipHalfExtentY * HeightScale * 2)

Lerp(a, b, percent) == a + Quot((b - a) * percent, 100)

BuoyancyResult(sub, buoyant, damping, drag, y) ==
  [submerged |-> sub, buoyant |-> buoyant, damping |-> damping,
   drag |-> drag, y |-> y]

ShipApplyBuoyancyAlwaysCorrects(y, vh, vy, water) ==
  BuoyancyResult(ShipSubmerged(y, water),
                 -gravityY * shipMass * ShipSubmerged(y, water) * buoyancyMultiplier,
                 -vy * verticalDamping * ShipSubmerged(y, water),
                 -vh * dragCoeff * ShipSubmerged(y, water),
                 Lerp(y, water + (shipHalfExtentY + clearance) * HeightScale,
                      lerpPercent))

\* Ship.applyBuoyancy: the forces it applies and the height it leaves
ShipApplyBuoyancy(y, vh, vy, water) ==
  LET sub == ShipSubmerged(y, water) IN
  IF sub = 0 THEN BuoyancyResult(0, 0, 0, 0, y)
  ELSE BuoyancyResult(sub,
                      -gravityY * shipMass * sub * buoyancyMultiplier,
                      -vy * verticalDamping * sub,
                      -vh * dragCoeff * sub,
                      Lerp(y, water + (shipHalfExtentY + clearance) * HeightScale,
                           lerpPercent))

\* handleMovement: thrust, in tenths
Thrust(boosting) ==
  (IF boosting THEN acceleration * boostMultiplier ELSE acceleration * 10)
  * shipMass

BoostedThrust == Thrust(TRUE)
PlainThrust == Thrust(FALSE)

HandleYawRightFirst(flags, yaw) ==
  IF flags["right"] THEN -rotationSpeed
  ELSE IF flags["left"] THEN rotationSpeed
  ELSE Quot(yaw * 9, 10)

\* handleMovement: angularVelocity.y
HandleYaw(flags, yaw) ==
  IF flags["left"] THEN rotationSpeed
  ELSE IF flags["right"] THEN -rotationSpeed
  ELSE Quot(yaw * 9, 10)

DrainedUnclamped(s, dt) == s - staminaDrainRate * dt

\* updateStamina, draining: stamina -= rate * dt; stamina = max(0, stamina)
Drained(s, dt) == Max(0, s - staminaDrainRate * dt)

\* updateStamina, regenerating: stamina += rate * dt; stamina = min(1, stamina)
Regenerated(s, dt) == Min(StaminaScale, s + staminaRegenRate * dt)

UpdateStaminaKeepsBoost(s, boosting, flags, dt) ==
  IF boosting /\ flags["forward"]
  THEN [stamina |-> Drained(s, dt), isBoosting |-> boosting]
  ELSE [stamina |-> Regenerated(s, dt), isBoosting |-> boosting]

\* updateStamina: the stamina and the boost flag it leaves
UpdateStamina(s, boosting, flags, dt) ==
  IF boosting /\ flags["forward"]
  THEN [stamina |-> Drained(s, dt),
        isBoosting |-> IF Drained(s, dt) <= 0 THEN FALSE ELSE boosting]
  ELSE [stamina |-> Regenerated(s, dt), isBoosting |-> boosting]

BoostAllowedAtThreshold(active, s) == active /\ s >= boostThreshold

\* setBoost: active && this.stamina > 0.1
BoostAllowed(active, s) == active /\ s > boostThreshold

ShipCall(op, arg, s, boosting, pre, buoy, fwd, back) ==
  [op |-> op, arg |-> arg, stamina |-> s, isBoosting |-> boosting,
   pre |-> pre, buoy |-> buoy, forward |-> fwd, backward |-> back]

NoBuoyancy == BuoyancyResult(0, 0, 0, 0, 0)

\* new Ship(...): stamina 1.0, not boosting, no flags, body at height 5
ShipInit ==
  /\ stamina = StaminaScale
  /\ isBoosting = FALSE
  /\ movementDirection = NoFlags
  /\ body = ShipBody(5 * HeightScale, 0, 0, 0)
  /\ lastShip = ShipCall("none", 0, StaminaScale, FALSE,
                         ShipBody(5 * HeightScale, 0, 0, 0), NoBuoyancy, 0, 0)

ShipIdle == ShipInit

\* Ship.setBoost(active)
SetBoost(active) ==
  /\ isBoosting' = BoostAllowed(active, stamina)
  /\ lastShip' = ShipCall("setBoost", active, stamina, isBoosting, body,
                          NoBuoyancy, 0, 0)
  /\ UNCHANGED <<stamina, movementDirection, body, notShipVars>>

\* Ship.setMovementDirection(direction, active)
SetMovementDirection(direction, active) ==
  /\ movementDirection' = [movementDirection EXCEPT ![direction] = active]
  /\ lastShip' = ShipCall("setMovementDirection", active, stamina, isBoosting,
                          body, NoBuoyancy, 0, 0)
  /\ UNCHANGED <<stamina, isBoosting, body, notShipVars>>

\* One frame of World.animate for the ship: world.step() leaves the body
\* somewhere, then ship.update(deltaTime) runs applyBuoyancy, handleMovement
\* and updateStamina.
ShipFrame ==
  \E dt \in DeltaTimes, sample \in BodySamples :
    LET pre == sample.body
        buoy == ShipApplyBuoyancy(pre.y, pre.vh, pre.vy, sample.water)
        thrust == Thrust(isBoosting)
        after == UpdateStamina(stamina, isBoosting, movementDirection, dt)
    IN
    /\ body' = [pre EXCEPT !.y = buoy.y,
                           !.yaw = HandleYaw(movementDirection, pre.yaw)]
    /\ stamina' = after.stamina
    /\ isBoosting' = after.isBoosting
    /\ lastShip' = ShipCall("update", dt, stamina, isBoosting, pre, buoy,
                            IF movementDirection["forward"] THEN thrust ELSE 0,
                            IF movementDirection["backward"]
                            THEN -Quot(thrust, 2) ELSE 0)
    /\ UNCHANGED <<movementDirection, notShipVars>>

(***************************************************************************)
(* The buoyancy steps of the ship and of the chest (entities/Chest.ts),    *)
(* applied to bodies at any height.                                        *)
(***************************************************************************)
\* Chest.applyBuoyancy: waterLevel = 0, chestHeight = 6, force 20 per ratio,
\* vertical damping 0.5 and horizontal damping 1.0 (in tenths)
chestWaterLevel == 0
chestHeight == 6
chestBuoyancy == 20
chestVerticalDamping == 5
chestHorizontalDamping == 10

\* body heights and water levels, from far below to far above the waterline
BodyHeights ==
  {-7000, -1000, -301, -300, -100, 0, 299, 300, 301, 420, 1000, 7000}
WaterLevels == {-7000, -120, 0, 120, 7000}
BodyVelocities == { <<0, 0>>, <<300, -200>>, <<-300, 200>> }

\* submergedRatio = max(0, min(1, (waterLevel - (y - chestHeight/2)) / chestHeight))
ChestSubmerged(y) ==
  Clamp01(chestWaterLevel - (y - (chestHeight * HeightScale) \div 2),
          chestHeight * HeightScale)

\* Chest.applyBuoyancy: the forces it applies; the height is left alone
ChestApplyBuoyancy(y, vh, vy) ==
  LET sub == ChestSubmerged(y) IN
  IF sub > 0
  THEN BuoyancyResult(sub, chestBuoyancy * sub,
                      -vy * chestVerticalDamping * sub,
                      -vh * chestHorizontalDamping * sub, y)
  ELSE BuoyancyResult(sub, 0, 0, 0, y)

BuoyancyCase(entity, y, vh, vy, water, result) ==
  [entity |-> entity, y |-> y, vh |-> vh, vy |-> vy, water |-> water,
   result |-> result]

BuoyancyInit == buoyancy = BuoyancyCase("none", 0, 0, 0, 0, NoBuoyancy)

BuoyancyIdle == BuoyancyInit

\* Ship.applyBuoyancy on a body at height y over water at level water
ShipBuoyancyStep ==
  \E y \in BodyHeights, v \in BodyVelocities, water \in WaterLevels :
    /\ buoyancy' = BuoyancyCase("ship", y, v[1], v[2], water,
                                ShipApplyBuoyancy(y, v[1], v[2], water))
    /\ UNCHANGED notBuoyancyVars

\* Chest.applyBuoyancy on a body at height y
ChestBuoyancyStep ==
  \E y \in BodyHeights, v \in BodyVelocities :
    /\ buoyancy' = BuoyancyCase("chest", y, v[1], v[2], chestWaterLevel,
                                ChestApplyBuoyancy(y, v[1], v[2]))
    /\ UNCHANGED notBuoyancyVars

(***************************************************************************)
(* Distance-based recycling of pooled islands and chests (the World with   *)
(* object pools).  Positions are taken along one axis through the origin:  *)
(* an angle is one of the two directions of that axis.                     *)
(***************************************************************************)
MaxEntities == 2
MaxDrift == 1

activeRadius == 2500
generationRadius == 2000
\* the band of a new island starts at 0.7, of a new chest at 0.5 of
\* generationRadius (in tenths)
islandBandStart == 7
chestBandStart == 5
\* generateInitialEntities: islands on a circle of radius 300, chests
\* between innerRadius 150 and outerRadius 500
initialIslandRadius == 300
initialChestInner == 150
initialChestOuter == 500
\* how far the physics step moves an active chest in one frame
driftStep == 10

EntityIds == 1..MaxEntities

\* Math.cos(angle) along the axis, and Math.random() in tenths
Cosines == {-1, 1}
RandomTenths == {0, 5}
PlayerSamples == {0, 5000}

\* new Island(...) / new Chest(...): _position, model and body at the
\* origin; createObject() leaves the member inactive
NewEntity == [active |-> FALSE, logical |-> 0, bodyPos |-> 0, visualPos |-> 0]

BandStart(k) ==
  IF k = "island" THEN (generationRadius * islandBandStart) \div 10
  ELSE (generationRadius * chestBandStart) \div 10

\* generationRadius * 0.7 + Math.random() * (generationRadius * 0.3), and
\* the same with 0.5 for a chest
NewRadius(k, rnd) ==
  BandStart(k) + (rnd * (generationRadius - BandStart(k))) \div 10

\* the point generateInitialEntities computes for the i-th member: islands
\* at equal angles on the circle (on the axis, alternately on either side),
\* chests at a random angle and distance
InitialPoint(k, i, cos, rnd) ==
  IF k = "island"
  THEN (IF i % 2 = 1 THEN 1 ELSE -1) * initialIslandRadius
  ELSE cos * (initialChestInner
              + (rnd * (initialChestOuter - initialChestInner)) \div 10)

\* entity.position.set(x, y, z): the getter returns the cached _position
\* vector, and Vector3.set changes that vector only
PositionSet(e, x) == [e EXCEPT !.logical = x]

\* ObjectPool.get() on a pool that is at its maximum size: the first
\* inactive member, else the first member
EntityGet(ents) ==
  IF \E j \in EntityIds : ~ents[j].active
  THEN CHOOSE j \in EntityIds :
         ~ents[j].active /\ \A h \in 1..(j - 1) : ents[h].active
  ELSE 1

\* the path get() takes: the World's pools hold their initial members, so
\* without an inactive member the island pool (5 of 5) recycles and the
\* chest pool (10 of 30) grows
EntityGetPath(k, ents) ==
  IF \E j \in EntityIds : ~ents[j].active THEN "reuse"
  ELSE IF k = "island" THEN "recycle" ELSE "grow"

Placement(op, ents, moved) == [op |-> op, ents |-> ents, moved |-> moved]

RECURSIVE InitialFrom(_, _, _, _)
\* the loop of generateInitialEntities from member i on
InitialFrom(k, i, gen, acc) ==
  IF i > MaxEntities THEN acc
  ELSE LET j == EntityGet(acc.ents)
           pt == InitialPoint(k, i, gen[i][1], gen[i][2])
           e == PositionSet([acc.ents[j] EXCEPT !.active = TRUE], pt)
       IN InitialFrom(k, i + 1, gen,
                      Placement("initial", [acc.ents EXCEPT ![j] = e],
                                Append(acc.moved,
                                       <<j, pt, EntityGetPath(k, acc.ents)>>)))

RECURSIVE ManageFromNoReplace(_, _, _, _, _)
ManageFromNoReplace(k, player, i, gen, acc) ==
  IF i > MaxEntities THEN acc
  ELSE IF acc.ents[i].active
          /\ Abs(acc.ents[i].logical - player) > activeRadius
  THEN ManageFromNoReplace(k, player, i + 1, gen,
                           Placement("pass",
                                     [acc.ents EXCEPT ![i].active = FALSE],
                                     Append(acc.moved, <<i, 0, "none">>)))
  ELSE ManageFromNoReplace(k, player, i + 1, gen, acc)

RECURSIVE ManageFrom(_, _, _, _, _)
\* the loop of manageEntityPooling over the pool from member i on
ManageFrom(k, player, i, gen, acc) ==
  IF i > MaxEntities THEN acc
  ELSE IF acc.ents[i].active
          /\ Abs(acc.ents[i].logical - player) > activeRadius
  THEN LET off == [acc.ents EXCEPT ![i].active = FALSE]
           j == EntityGet(off)
           pt == player + gen[i][1] * NewRadius(k, gen[i][2])
           e == PositionSet([off[j] EXCEPT !.active = TRUE], pt)
       IN ManageFrom(k, player, i + 1, gen,
                     Placement("pass", [off EXCEPT ![j] = e],
                               Append(acc.moved,
                                      <<j, pt, EntityGetPath(k, off)>>)))
  ELSE ManageFrom(k, player, i + 1, gen, acc)

\* Chest.update copies the body's position to the model; Island.update
\* changes the model's height only
EntityUpdate(k, e, drift) ==
  IF k = "chest" /\ e.active
  THEN [e EXCEPT !.bodyPos = e.bodyPos + drift, !.visualPos = e.bodyPos + drift]
  ELSE e

PoolingInitWith(k) ==
  /\ poolingKind = k
  /\ playerPosition = 0
  /\ entities = [i \in EntityIds |-> NewEntity]
  /\ placed = FALSE
  /\ lastPass = Placement("none", [i \in EntityIds |-> NewEntity], << >>)

PoolingInit == \E k \in Kinds : PoolingInitWith(k)

PoolingIdle == PoolingInitWith("island")

\* World.generateInitialEntities
GenerateInitialEntities ==
  /\ ~placed
  /\ \E gen \in [EntityIds -> Cosines \X RandomTenths] :
       LET r == InitialFrom(poolingKind, 1, gen,
                            Placement("initial", entities, << >>)) IN
       /\ entities' = r.ents
       /\ lastPass' = r
  /\ placed' = TRUE
  /\ UNCHANGED <<poolingKind, playerPosition, notPoolingVars>>

\* One frame of the pooled World.animate: the physics step, the ship's
\* update and playerPosition.copy(ship.position), the pools' update, then
\* manageEntityPooling.
PoolingFrame ==
  /\ placed
  /\ \E p \in PlayerSamples, drift \in {0, driftStep},
        gen \in [EntityIds -> Cosines \X RandomTenths] :
       LET moved == [i \in EntityIds |->
                       EntityUpdate(poolingKind, entities[i], drift)]
           r == ManageFrom(poolingKind, p, 1, gen,
                           Placement("pass", moved, << >>)) IN
       /\ \A i \in EntityIds : Abs(moved[i].bodyPos) <= MaxDrift * driftStep
       /\ playerPosition' = p
       /\ entities' = r.ents
       /\ lastPass' = r
  /\ UNCHANGED <<poolingKind, placed, notPoolingVars>>

(***************************************************************************)
(* GerstnerWater._initWaves (utils/GerstnerWater.ts).  Wavelengths are in  *)
(* units of 0.0001, steepness in tenths, directions are integer vectors    *)
(* and unit directions are in thousandths.                                 *)
(***************************************************************************)
MaxWaves == 2

\* Math.max(0.0001, cfg.wavelength), in wavelength units
minWavelength == 1
WavelengthScale == 10000

WaveDirections == { <<0, 0>>, <<1, 0>>, <<1, 1>> }
WaveSteepness == {-5, 1}
Wavelengths == {-1 * WavelengthScale, 0, 60 * WavelengthScale}

WaveConfig(d, q, l) == [direction |-> d, steepness |-> q, wavelength |-> l]

WaveConfigs ==
  {WaveConfig(d, q, l) : d \in WaveDirections, q \in WaveSteepness,
                         l \in Wavelengths}

\* the three default waves
DefaultWaves ==
  << WaveConfig(<<1, 0>>, 1, 60 * WavelengthScale),
     WaveConfig(<<0, 1>>, 1, 45 * WavelengthScale),
     WaveConfig(<<1, 1>>, 1, 25 * WavelengthScale) >>

RECURSIVE Isqrt(_)
\* the largest r with r * r <= n
Isqrt(n) ==
  IF n < 2 THEN n
  ELSE LET s == 2 * Isqrt(n \div 4) IN
       IF (s + 1) * (s + 1) > n THEN s ELSE s + 1

\* D.lengthSq()
LengthSq(d) == d[1] * d[1] + d[2] * d[2]

\* D.normalize(), in thousandths
Normalize(d) ==
  << (d[1] * 1000000) \div Isqrt(LengthSq(d) * 1000000),
     (d[2] * 1000000) \div Isqrt(LengthSq(d) * 1000000) >>

\* THREE.MathUtils.clamp(cfg.steepness, 0.0, 1.0), in tenths
ClampSteepness(q) == Max(0, Min(10, q))

\* const L = Math.max(0.0001, cfg.wavelength)
UsedWavelength(l) == Max(minWavelength, l)

InternalWave(cfg) ==
  [D |-> Normalize(cfg.direction), Q |-> ClampSteepness(cfg.steepness),
   L |-> UsedWavelength(cfg.wavelength)]

Water(status, waves) == [status |-> status, waves |-> waves]

RECURSIVE InitWavesFrom(_, _, _)
\* the loop of _initWaves from configuration i on
InitWavesFrom(cfgs, i, acc) ==
  IF i > Len(cfgs) THEN Water("built", acc)
  ELSE IF LengthSq(cfgs[i].direction) = 0
  THEN Water("error", acc)   \* throw new Error('Wave direction cannot be zero')
  ELSE InitWavesFrom(cfgs, i + 1, Append(acc, InternalWave(cfgs[i])))

\* _initWaves(waveConfigs): waveConfigs ?? defaults
InitWaves(opt) ==
  InitWavesFrom(IF opt.given THEN opt.waves ELSE DefaultWaves, 1, << >>)

WaveOption(given, waves) == [given |-> given, waves |-> waves]

WaveLists ==
  UNION {[1..n -> WaveConfigs] : n \in 0..MaxWaves}

WaterInit ==
  /\ waveOptions \in {WaveOption(TRUE, w) : w \in WaveLists}
                     \cup {WaveOption(FALSE, << >>)}
  /\ gerstnerWater = Water("none", << >>)

WaterIdle ==
  /\ waveOptions = WaveOption(FALSE, << >>)
  /\ gerstnerWater = Water("none", << >>)

\* new GerstnerWater({ waves })
WaterConstruct ==
  /\ gerstnerWater.status = "none"
  /\ gerstnerWater' = InitWaves(waveOptions)
  /\ UNCHANGED <<waveOptions, notWaterVars>>

(***************************************************************************)
(* Start-up (main.ts and World.init of world.ts): init() awaits the model  *)
(* loads one after the other; animate() is the then-handler of             *)
(* init().catch(rethrow).                                                  *)
(***************************************************************************)
MaxFrames == 3

\* the loads init() awaits, in order: createShip, createProjectBottles,
\* createResumeChest
AwaitedLoads == <<"ship", "bottles", "chest">>

Everything == {"environment", "ship", "bottles", "chest", "listeners"}

AfterLoad(pc) ==
  IF pc = "ship" THEN "bottles"
  ELSE IF pc = "bottles" THEN "chest"
  ELSE "resolved"

AfterCatchSwallowed == "then"

\* .catch(error => { ...; throw error; }): the chain stays rejected
AfterCatch == "failed"

StartInit ==
  /\ initPc = "idle"
  /\ built = {}
  /\ textures = [b \in Bottles |-> "none"]
  /\ chain = "none"
  /\ frames = 0

StartIdle == StartInit

\* DOMContentLoaded: new World(); world.init() runs up to its first
\* pending load (createEnvironment awaits nothing)
StartApp ==
  /\ initPc = "idle"
  /\ initPc' = AwaitedLoads[1]
  /\ built' = {"environment"}
  /\ chain' = "pending"
  /\ UNCHANGED <<textures, frames, notStartVars>>

\* The load init() is waiting for resolves: init() constructs what depends
\* on it and goes on to the next await, or to its end.
LoadResolves ==
  /\ initPc \in {"ship", "bottles", "chest"}
  /\ initPc' = AfterLoad(initPc)
  /\ built' = built \cup {initPc}
               \cup (IF AfterLoad(initPc) = "resolved" THEN {"listeners"} ELSE {})
  /\ textures' = IF initPc = "bottles"
                 THEN [b \in Bottles |-> "pending"] ELSE textures
  /\ chain' = IF AfterLoad(initPc) = "resolved" THEN "then" ELSE chain
  /\ UNCHANGED <<frames, notStartVars>>

\* The load init() is waiting for rejects: init() rejects.
LoadRejects ==
  /\ initPc \in {"ship", "bottles", "chest"}
  /\ initPc' = "rejected"
  /\ chain' = "catch"
  /\ UNCHANGED <<built, textures, frames, notStartVars>>

\* the catch handler of main.ts
CatchHandler ==
  /\ chain = "catch"
  /\ chain' = AfterCatch
  /\ UNCHANGED <<initPc, built, textures, frames, notStartVars>>

\* the then handler of main.ts: world.animate()
ThenHandler ==
  /\ chain = "then"
  /\ chain' = "started"
  /\ frames' = 1
  /\ UNCHANGED <<initPc, built, textures, notStartVars>>

\* requestAnimationFrame(() => this.animate())
NextAnimate ==
  /\ chain = "started"
  /\ frames < MaxFrames
  /\ frames' = frames + 1
  /\ UNCHANGED <<initPc, built, textures, chain, notStartVars>>

\* a texture load started by a Bottle constructor ends; nothing awaits it
TextureEnds(b, outcome) ==
  /\ textures[b] = "pending"
  /\ textures' = [textures EXCEPT ![b] = outcome]
  /\ UNCHANGED <<initPc, built, chain, frames, notStartVars>>

(***************************************************************************)
(* The project card of a chest (entities/Chest.ts) in the World with       *)
(* object pools: interact() opens the chest and shows a card; the card's   *)
(* close button, the World's Escape listener and deactivate() end it.      *)
(***************************************************************************)
MaxCards == 5

\* a chest the pool has handed out: active and closed
CardInit ==
  /\ cardChest = ChestActivate(NewChest)
  /\ cardsShown = 0
  /\ cardsHidden = 0
  /\ lastCard = "none"

CardIdle == CardInit

\* Chest.interact(): openChest() returns early on an open chest, else it
\* opens the chest and showProjectCard() appends a card
CardInteract ==
  /\ cardChest.active
  /\ cardsShown + cardsHidden < MaxCards
  /\ cardChest' = ChestInteract(cardChest)
  /\ cardsShown' = IF cardChest.opened THEN cardsShown ELSE cardsShown + 1
  /\ lastCard' = "interact"
  /\ UNCHANGED <<cardsHidden, notCardVars>>

\* click on the close button of a displayed card: card.remove(), closeChest()
CardClickClose ==
  /\ cardsShown > 0
  /\ cardsShown' = cardsShown - 1
  /\ cardChest' = ChestCloseChest(cardChest)
  /\ lastCard' = "click"
  /\ UNCHANGED <<cardsHidden, notCardVars>>

\* keydown Escape: the World's listener sets display = 'none' on every card
CardEscape ==
  /\ cardsShown' = 0
  /\ cardsHidden' = cardsHidden + cardsShown
  /\ lastCard' = "Escape"
  /\ UNCHANGED <<cardChest, notCardVars>>

\* chest.deactivate(), as the distance pass calls it
CardDeactivate ==
  /\ cardChest' = ChestDeactivate(cardChest)
  /\ lastCard' = "deactivate"
  /\ UNCHANGED <<cardsShown, cardsHidden, notCardVars>>

\* chest.activate(), as get() calls it on a member it reuses
CardActivate ==
  /\ cardChest' = ChestActivate(cardChest)
  /\ lastCard' = "activate"
  /\ UNCHANGED <<cardsShown, cardsHidden, notCardVars>>

(***************************************************************************)
(* The floating animation of pooled islands (entities/Island.ts).  A tween *)
(* runs from its start() to its stop(); it repeats for ever.               *)
(***************************************************************************)
MaxFloating == 2
MaxTweens == 4

FloatingIslands == 1..MaxFloating

\* setupFloatingAnimation: this.floatingTween = new Tween(...).start(); the
\* tween it replaces is not stopped
SetupFloatingAnimation(f) ==
  [f EXCEPT !.playing = TRUE,
            !.orphans = IF f.playing THEN f.orphans + 1 ELSE f.orphans]

\* new Island(...): inactive, with setupFloatingAnimation() called
NewFloating ==
  SetupFloatingAnimation([active |-> FALSE, playing |-> FALSE, orphans |-> 0])

FloatingActivate(f) ==
  IF f.active THEN f ELSE [f EXCEPT !.active = TRUE, !.playing = TRUE]

FloatingDeactivate(f) ==
  IF ~f.active THEN f ELSE [f EXCEPT !.active = FALSE, !.playing = FALSE]

\* the tweens of an island that were started and not stopped
RunningTweens(f) == f.orphans + (IF f.playing THEN 1 ELSE 0)

\* createObject(): the factory's island, then deactivate()
FloatingInit == floating = [i \in FloatingIslands |-> FloatingDeactivate(NewFloating)]

FloatingIdle == FloatingInit

\* island.activate(), also as get() calls it on a member it reuses
IslandActivates(i) ==
  /\ floating' = [floating EXCEPT ![i] = FloatingActivate(@)]
  /\ UNCHANGED notFloatingVars

\* island.deactivate()
IslandDeactivates(i) ==
  /\ floating' = [floating EXCEPT ![i] = FloatingDeactivate(@)]
  /\ UNCHANGED notFloatingVars

\* island.reset()
IslandResets(i) ==
  /\ RunningTweens(floating[i]) < MaxTweens
  /\ floating' = [floating EXCEPT ![i] = SetupFloatingAnimation(@)]
  /\ UNCHANGED notFloatingVars

\* forced recycling in get(): oldestObj.reset(); oldestObj.activate()
IslandRecycled(i) ==
  /\ RunningTweens(floating[i]) < MaxTweens
  /\ floating' = [floating EXCEPT
                    ![i] = FloatingActivate(SetupFloatingAnimation(@))]
  /\ UNCHANGED notFloatingVars

(***************************************************************************)
(* Background audio (world.ts): the fallback chain of                      *)
(* setupBackgroundAudio and maybeStartAmbientSound.  Speeds are in tenths. *)
(***************************************************************************)
numSources == 3
minSpeed == 5

SpeedSamples == {0, 4, 5, 6, 20}

Attempt(idx, outcome) == [source |-> idx, outcome |-> outcome]

NextSourceSkips(idx) == idx + 2

\* onError: tryLoad(idx + 1)
NextSource(idx) == idx + 1

\* tryLoad(idx): nothing if idx >= sources.length (indices from 1 here),
\* else audioLoader.load(sources[idx], ...)
TryLoad(tried, idx) ==
  IF idx > numSources THEN tried ELSE Append(tried, Attempt(idx, "pending"))

\* sound.setBuffer(buffer) has run
BufferSet == \E i \in 1..Len(attempts) : attempts[i].outcome = "loaded"

AudioInitWith(ctx) ==
  /\ attempts = TryLoad(<< >>, 1)
  /\ contextState = ctx
  /\ ambientStarted = FALSE
  /\ isPlaying = FALSE
  /\ speed = 0
  /\ played = << >>

AudioInit == \E ctx \in {"suspended", "running"} : AudioInitWith(ctx)

AudioIdle == AudioInitWith("suspended")

\* the pending load calls onLoad: sound.setBuffer(buffer)
AudioLoaded ==
  /\ attempts # << >>
  /\ attempts[Len(attempts)].outcome = "pending"
  /\ attempts' = [attempts EXCEPT ![Len(attempts)].outcome = "loaded"]
  /\ UNCHANGED <<contextState, ambientStarted, isPlaying, speed, played,
                 notAudioVars>>

\* the pending load calls onError: tryLoad(idx + 1)
AudioError ==
  /\ attempts # << >>
  /\ attempts[Len(attempts)].outcome = "pending"
  /\ attempts' = TryLoad([attempts EXCEPT ![Len(attempts)].outcome = "failed"],
                         NextSource(attempts[Len(attempts)].source))
  /\ UNCHANGED <<contextState, ambientStarted, isPlaying, speed, played,
                 notAudioVars>>

\* a click or keydown: resumeContext
ResumeContext ==
  /\ contextState = "suspended"
  /\ contextState' = "running"
  /\ UNCHANGED <<attempts, ambientStarted, isPlaying, speed, played,
                 notAudioVars>>

\* World.animate: the ship's update gives the speed, then
\* maybeStartAmbientSound()
AudioFrame ==
  \E v \in SpeedSamples :
    /\ speed' = v
    /\ IF ~ambientStarted /\ v > minSpeed /\ contextState # "suspended"
       THEN /\ ambientStarted' = TRUE
            /\ isPlaying' = TRUE
            /\ played' = IF isPlaying THEN played ELSE Append(played, BufferSet)
       ELSE UNCHANGED <<ambientStarted, isPlaying, played>>
    /\ UNCHANGED <<attempts, contextState, notAudioVars>>

(***************************************************************************)
(* One frame: World.animate of the World with object pools and of          *)
(* world.ts.  TWEEN.update() and updateUI() are left out.  The wave time   *)
(* is in milliseconds.                                                     *)
(***************************************************************************)
MaxFrameNo == 7

WorldVersions == {"pooled", "main"}
FrameDeltas == {0, 8, 16, 33}

\* the steps of one animate() call, in the order of the code: the World
\* with object pools has no wave time; world.ts updates its islands and
\* bottles, has no pools and no distance pass, and advances the wave time
\* only once the ocean shader has been compiled
AnimateSteps(version, compiled) ==
  IF version = "pooled"
  THEN <<"physics", "ship", "pools", "recycling", "render">>
  ELSE <<"physics", "ship", "islands">>
       \o (IF compiled THEN <<"waves">> ELSE << >>) \o <<"render">>

FrameInitWith(version) ==
  /\ worldVersion = version
  /\ shaderCompiled = FALSE
  /\ uTime = 0
  /\ physicsSteps = 0
  /\ lastSteps = << >>

FrameInit == \E version \in WorldVersions : FrameInitWith(version)

FrameIdle == FrameInitWith("main")

\* animate(): the callback runs to its end before the next one starts; the
\* first render of the ocean material calls onBeforeCompile
Animate ==
  /\ physicsSteps < MaxFrameNo
  /\ \E deltaTime \in FrameDeltas :
       uTime' = IF worldVersion = "main" /\ shaderCompiled
                THEN uTime + deltaTime ELSE uTime
  /\ physicsSteps' = physicsSteps + 1
  /\ lastSteps' = AnimateSteps(worldVersion, shaderCompiled)
  /\ shaderCompiled' = (shaderCompiled \/ worldVersion = "main")
  /\ UNCHANGED <<worldVersion, notFrameVars>>

\* every part but the pool at rest
IdleButPool ==
  /\ BottlesIdle /\ InteractionIdle /\ ShipIdle /\ BuoyancyIdle
  /\ PoolingIdle /\ WaterIdle /\ StartIdle /\ CardIdle
  /\ FloatingIdle /\ AudioIdle /\ FrameIdle

(***************************************************************************)
(* Initial states: the pool right after its constructor.                   *)
(***************************************************************************)
InitPoolWith(track) ==
  /\ kind \in Kinds
  /\ initialSize \in 0..MaxInitialSize
  /\ maxSize \in 0..MaxMaxSize
  /\ pool = ConstructorPool(initialSize)
  /\ members = [i \in Ids |-> CreateObject(kind)]
  /\ last = NoCall
  /\ history = << >>
  /\ fresh = TRUE
  /\ actOrder = << >>
  /\ trackOrder = track

(***************************************************************************)
(* ObjectPool.get()                                                        *)
(***************************************************************************)
PoolGet ==
  /\ fresh => Len(history) < MaxGets
  /\ LET f == FirstInactive(pool, members) IN
     IF f # 0
     THEN \* reuse the first inactive member
          /\ members' = [members EXCEPT ![f] = Activate(kind, @)]
          /\ pool' = pool
          /\ last' = GetCall(f, "reuse")
          /\ actOrder' = Activated(f)
          /\ history' = IF fresh THEN Append(history, f) ELSE history
     ELSE IF MayGrow(pool, maxSize)
     THEN \* construct, append, activate
          LET n == Len(pool) + 1 IN
          /\ n \in Ids
          /\ members' = [members EXCEPT ![n] = GrowObject(kind)]
          /\ pool' = Append(pool, n)
          /\ last' = GetCall(n, "grow")
          /\ actOrder' = Activated(n)
          /\ history' = IF fresh THEN Append(history, n) ELSE history
     ELSE IF Len(pool) = 0
     THEN \* this.pool[0] is undefined: oldestObj.reset() throws a TypeError
          /\ UNCHANGED <<members, pool, actOrder, history>>
          /\ last' = GetCall(0, "throw")
     ELSE \* forced recycling
          LET o == pool[OldestIndex(pool)] IN
          /\ members' = [members EXCEPT ![o] = RecycleObject(kind, @)]
          /\ pool' = Rotate(pool)
          /\ last' = GetCall(o, "recycle")
          /\ actOrder' = Activated(o)
          /\ history' = IF fresh THEN Append(history, o) ELSE history
  /\ UNCHANGED <<Config, fresh, notPoolVars>>

(***************************************************************************)
(* ObjectPool.update(dt): update() of every active member.  Chest.update   *)
(* and Island.update move the visual and the particles only.               *)
(***************************************************************************)
PoolUpdate ==
  /\ last' = Call("update", 0)
  /\ UNCHANGED <<pool, members, Config, history, fresh, actOrder, notPoolVars>>

(***************************************************************************)
(* ObjectPool.releaseAll()                                                 *)
(***************************************************************************)
PoolReleaseAll ==
  /\ members' = [i \in Ids |->
                   IF \E j \in 1..Len(pool) : pool[j] = i
                   THEN Deactivate(kind, members[i]) ELSE members[i]]
  /\ last' = Call("releaseAll", 0)
  /\ NotFresh
  /\ UNCHANGED <<pool, Config, actOrder, notPoolVars>>

(***************************************************************************)
(* Calls made directly on a member of the pool.                            *)
(***************************************************************************)
MemberDeactivate(i) ==
  /\ i \in 1..Len(pool)
  /\ members' = [members EXCEPT ![i] = Deactivate(kind, @)]
  /\ last' = Call("deactivate", i)
  /\ NotFresh
  /\ UNCHANGED <<pool, Config, actOrder, notPoolVars>>

MemberActivate(i) ==
  /\ i \in 1..Len(pool)
  /\ members' = [members EXCEPT ![i] = Activate(kind, @)]
  /\ last' = Call("activate", i)
  /\ actOrder' = Activated(i)
  /\ NotFresh
  /\ UNCHANGED <<pool, Config, notPoolVars>>

MemberReset(i) ==
  /\ i \in 1..Len(pool)
  /\ members' = [members EXCEPT ![i] = Reset(kind, @)]
  /\ last' = Call("reset", i)
  /\ NotFresh
  /\ UNCHANGED <<pool, Config, actOrder, notPoolVars>>

MemberInteract(i) ==
  /\ kind = "chest"
  /\ i \in 1..Len(pool)
  /\ members' = [members EXCEPT ![i] = ChestInteract(@)]
  /\ last' = Call("interact", i)
  /\ NotFresh
  /\ UNCHANGED <<pool, Config, actOrder, notPoolVars>>

MemberCloseChest(i) ==
  /\ kind = "chest"
  /\ i \in 1..Len(pool)
  /\ members' = [members EXCEPT ![i] = ChestCloseChest(@)]
  /\ last' = Call("closeChest", i)
  /\ NotFresh
  /\ UNCHANGED <<pool, Config, actOrder, notPoolVars>>

NextPool ==
  \/ PoolGet
  \/ PoolUpdate
  \/ PoolReleaseAll
  \/ \E i \in Ids : MemberDeactivate(i)
  \/ \E i \in Ids : MemberActivate(i)
  \/ \E i \in Ids : MemberReset(i)
  \/ \E i \in Ids : MemberInteract(i)
  \/ \E i \in Ids : MemberCloseChest(i)

InitPool == InitPoolWith(FALSE) /\ IdleButPool

SpecPool == InitPool /\ [][NextPool]_vars

\* get() interleaved with member deactivate() only, activation order recorded
NextPoolOrder ==
  \/ PoolGet
  \/ \E i \in Ids : MemberDeactivate(i)

InitPoolOrder == InitPoolWith(TRUE) /\ IdleButPool

SpecPoolOrder == InitPoolOrder /\ [][NextPoolOrder]_vars

\* The pool part at rest, for the specifications of the other parts.
PoolIdle ==
  /\ kind = "chest" /\ initialSize = 0 /\ maxSize = 0
  /\ pool = ConstructorPool(0)
  /\ members = [i \in Ids |-> CreateObject("chest")]
  /\ last = NoCall /\ history = << >> /\ fresh = TRUE
  /\ actOrder = << >> /\ trackOrder = FALSE

InitBottles ==
  /\ PoolIdle /\ BottlesInit /\ InteractionIdle /\ ShipIdle
  /\ BuoyancyIdle /\ PoolingIdle /\ WaterIdle /\ StartIdle
  /\ CardIdle /\ FloatingIdle /\ AudioIdle /\ FrameIdle

NextBottles == BottleFrame

SpecBottles == InitBottles /\ [][NextBottles]_vars

InitInteraction ==
  /\ PoolIdle /\ BottlesIdle /\ InteractionInit /\ ShipIdle
  /\ BuoyancyIdle /\ PoolingIdle /\ WaterIdle /\ StartIdle
  /\ CardIdle /\ FloatingIdle /\ AudioIdle /\ FrameIdle

NextInteraction ==
  \/ InteractionFrame
  \/ \E key \in Keys : KeyDown(key)
  \/ ClickClose
  \/ RemoveOverlay

SpecInteraction == InitInteraction /\ [][NextInteraction]_vars

InitShip ==
  /\ PoolIdle /\ BottlesIdle /\ InteractionIdle /\ ShipInit
  /\ BuoyancyIdle /\ PoolingIdle /\ WaterIdle /\ StartIdle
  /\ CardIdle /\ FloatingIdle /\ AudioIdle /\ FrameIdle

NextShip ==
  \/ \E active \in BOOLEAN : SetBoost(active)
  \/ \E direction \in Directions, active \in BOOLEAN :
        SetMovementDirection(direction, active)
  \/ ShipFrame

SpecShip == InitShip /\ [][NextShip]_vars

InitBuoyancy ==
  /\ PoolIdle /\ BottlesIdle /\ InteractionIdle /\ ShipIdle
  /\ BuoyancyInit /\ PoolingIdle /\ WaterIdle /\ StartIdle
  /\ CardIdle /\ FloatingIdle /\ AudioIdle /\ FrameIdle

NextBuoyancy == ShipBuoyancyStep \/ ChestBuoyancyStep

SpecBuoyancy == InitBuoyancy /\ [][NextBuoyancy]_vars

InitPooling ==
  /\ PoolIdle /\ BottlesIdle /\ InteractionIdle /\ ShipIdle
  /\ BuoyancyIdle /\ PoolingInit /\ WaterIdle /\ StartIdle
  /\ CardIdle /\ FloatingIdle /\ AudioIdle /\ FrameIdle

NextPooling == GenerateInitialEntities \/ PoolingFrame

SpecPooling == InitPooling /\ [][NextPooling]_vars

InitWater ==
  /\ PoolIdle /\ BottlesIdle /\ InteractionIdle /\ ShipIdle
  /\ BuoyancyIdle /\ PoolingIdle /\ WaterInit /\ StartIdle
  /\ CardIdle /\ FloatingIdle /\ AudioIdle /\ FrameIdle

NextWater == WaterConstruct

SpecWater == InitWater /\ [][NextWater]_vars

InitStart ==
  /\ PoolIdle /\ BottlesIdle /\ InteractionIdle /\ ShipIdle
  /\ BuoyancyIdle /\ PoolingIdle /\ WaterIdle /\ StartInit
  /\ CardIdle /\ FloatingIdle /\ AudioIdle /\ FrameIdle

NextStart ==
  \/ StartApp
  \/ LoadResolves
  \/ LoadRejects
  \/ CatchHandler
  \/ ThenHandler
  \/ NextAnimate
  \/ \E b \in Bottles, outcome \in {"loaded", "failed"} : TextureEnds(b, outcome)

SpecStart == InitStart /\ [][NextStart]_vars

InitCard ==
  /\ PoolIdle /\ BottlesIdle /\ InteractionIdle /\ ShipIdle
  /\ BuoyancyIdle /\ PoolingIdle /\ WaterIdle /\ StartIdle
  /\ CardInit /\ FloatingIdle /\ AudioIdle /\ FrameIdle

NextCard ==
  \/ CardInteract
  \/ CardClickClose
  \/ CardEscape
  \/ CardDeactivate
  \/ CardActivate

SpecCard == InitCard /\ [][NextCard]_vars

InitFloating ==
  /\ PoolIdle /\ BottlesIdle /\ InteractionIdle /\ ShipIdle
  /\ BuoyancyIdle /\ PoolingIdle /\ WaterIdle /\ StartIdle
  /\ CardIdle /\ FloatingInit /\ AudioIdle /\ FrameIdle

NextFloating ==
  \E i \in FloatingIslands :
    \/ IslandActivates(i)
    \/ IslandDeactivates(i)
    \/ IslandResets(i)
    \/ IslandRecycled(i)

SpecFloating == InitFloating /\ [][NextFloating]_vars

InitAudio ==
  /\ PoolIdle /\ BottlesIdle /\ InteractionIdle /\ ShipIdle
  /\ BuoyancyIdle /\ PoolingIdle /\ WaterIdle /\ StartIdle
  /\ CardIdle /\ FloatingIdle /\ AudioInit /\ FrameIdle

NextAudio ==
  \/ AudioLoaded
  \/ AudioError
  \/ ResumeContext
  \/ AudioFrame

\* a load that was started ends: the loader calls onLoad or onError
SpecAudio ==
  InitAudio /\ [][NextAudio]_vars /\ WF_vars(AudioLoaded \/ AudioError)

InitFrame ==
  /\ PoolIdle /\ BottlesIdle /\ InteractionIdle /\ ShipIdle
  /\ BuoyancyIdle /\ PoolingIdle /\ WaterIdle /\ StartIdle
  /\ CardIdle /\ FloatingIdle /\ AudioIdle /\ FrameInit

NextFrame == Animate

SpecFrame == InitFrame /\ [][NextFrame]_vars

(***************************************************************************)
(* Properties of the pool and of its members.                              *)
(***************************************************************************)
Constructed == {i \in Ids : i <= Len(pool)}
Membership(m) == <<m.active, m.inScene, m.inWorld>>

\* C1: in every reachable state of an ObjectPool, from the end of its
\* constructor onward, getTotalCount() is at most maxSize.
C1_TotalCountAtMostMaxSize == getTotalCount <= maxSize

\* C2: with maxSize >= 1, get() never fails and the instance it returns is
\* active at the moment of return, on the reuse, growth and recycling paths.
C2_GetReturnsActive ==
  (last.op = "get" /\ maxSize >= 1) =>
     /\ last.path \in {"reuse", "grow", "recycle"}
     /\ last.id \in Constructed
     /\ members[last.id].active

C2_Witness ==
  /\ last.op = "get" /\ last.path = "recycle" /\ maxSize >= 1
  /\ members[last.id].active

\* C3 (as claimed): whenever get() force-recycles, the member it resets and
\* returns is the one whose latest activate() call is the oldest.
C3_RecyclesLeastRecentlyActivated ==
  (last.op = "get" /\ last.path = "recycle") => last.id = last.lra

\* C3 (amended): whenever get() force-recycles, the member it resets and
\* returns is the one that was first in the pool's internal order (the member
\* constructed or force-recycled longest ago; reuse of an inactive member
\* does not move it), and it is moved to the end of that order.
C3_RecyclesHeadOfPool ==
  (last.op = "get" /\ last.path = "recycle") =>
     /\ last.id = last.head
     /\ pool[Len(pool)] = last.id

C3_Witness ==
  /\ last.op = "get" /\ last.path = "recycle"
  /\ last.id = last.head
  /\ last.lra # 0 /\ last.id # last.lra

\* C4: on a freshly constructed pool with initialSize <= maxSize and no
\* deactivate() calls, the first maxSize get() calls return pairwise distinct
\* active instances, and the (maxSize+k)-th get() returns the instance the
\* k-th returned, force-recycled (reset) and moved to the end of the order.
C4_FreshGetsCycle ==
  (fresh /\ initialSize <= maxSize) =>
     /\ \A i, j \in 1..Len(history) :
           (i < j /\ j <= maxSize) => history[i] # history[j]
     /\ \A j \in 1..Len(history) : members[history[j]].active
     /\ \A j \in 1..Len(history) :
           j > maxSize => history[j] = history[j - maxSize]
     /\ (last.op = "get" /\ Len(history) > maxSize) =>
           /\ last.path = "recycle"
           /\ last.id = history[Len(history)]
           /\ pool[Len(pool)] = last.id

C4_Witness ==
  /\ fresh /\ initialSize = 2 /\ maxSize = 3
  /\ Len(history) = 4
  /\ history = <<1, 2, 3, 1>>
  /\ pool = <<2, 3, 1>>
  /\ \A i \in 1..3 : members[i].active

\* C5: for every pooled Chest and Island, in every reachable state, the
\* active flag is true iff the visual is in the scene and the body is in the
\* physics world.
C5_ActiveIffInWorld ==
  \A i \in Constructed :
     members[i].active <=> (members[i].inScene /\ members[i].inWorld)

C5_Witness ==
  /\ last.op = "deactivate" /\ last.pre.active
  /\ Membership(members[last.id]) = <<FALSE, FALSE, FALSE>>
  /\ \E i \in Constructed : Membership(members[i]) = <<TRUE, TRUE, TRUE>>

\* C6: activate() on an already active member and deactivate() on an
\* already inactive member change neither the active flag nor the scene /
\* physics-world membership.
C6_ActivateDeactivateIdempotent ==
  /\ (last.op = "activate" /\ last.pre.active) =>
        Membership(members[last.id]) = Membership(last.pre)
  /\ (last.op = "deactivate" /\ ~last.pre.active) =>
        Membership(members[last.id]) = Membership(last.pre)

C6_Witness ==
  /\ last.op = "deactivate" /\ ~last.pre.active
  /\ Membership(members[last.id]) = <<FALSE, FALSE, FALSE>>
  /\ kind = "chest"

\* C7: after Chest.deactivate() returns the chest is closed (opened = false),
\* whatever sequence of activate(), deactivate(), interact()/openChest() and
\* closeChest() calls preceded it.
C7_ClosedAfterDeactivate ==
  (kind = "chest" /\ last.op = "deactivate") => ~members[last.id].opened

\* C8: immediately after Chest.reset() returns, opened = false and the
\* particle system is hidden, whatever state the chest was in.
C8_ClosedAfterReset ==
  (kind = "chest" /\ last.op = "reset") =>
     /\ ~members[last.id].opened
     /\ ~members[last.id].particlesVisible

C8_Witness ==
  /\ kind = "chest" /\ last.op = "reset"
  /\ last.pre.opened /\ last.pre.particlesVisible
  /\ ~members[last.id].opened

(***************************************************************************)
(* Properties of the bottles and of the island interaction.                *)
(***************************************************************************)
\* C9: each project bottle opens its link at most once, however often the
\* ship enters and leaves its proximity, and window.open is never called for
\* a bottle whose triggered flag was already true when the check began.
C9_BottleOpensAtMostOnce ==
  /\ \A b \in Bottles : opens[b] <= 1
  /\ ~reopened

C9_Witness ==
  \E b \in Bottles :
     /\ entries[b] >= 2 /\ dist[b] < bottleDistance
     /\ triggered[b] /\ opens[b] = 1

NearestIslands ==
  {i \in 1..Len(islands) :
     \A j \in 1..Len(islands) :
        DistSq(shipPos, islands[i]) <= DistSq(shipPos, islands[j])}

\* C10: an 'E' key-down invokes interact() exactly once, on the nearest
\* island, if the ship is strictly closer than 30 to it at that time, and
\* invokes none if the distance is 30 or more or no island exists; no
\* interact() is invoked without a key-down.
C10_InteractOncePerKeyInRange ==
  /\ (lastEvent.type = "keydown" /\ lastEvent.key \in {"e", "E"}) =>
        IF \E i \in NearestIslands :
              DistSq(shipPos, islands[i]) < Sq(interactionDistance)
        THEN lastEvent.calls = 1 /\ lastEvent.target \in NearestIslands
        ELSE lastEvent.calls = 0
  /\ lastEvent.type # "keydown" => lastEvent.calls = 0

C10_Witness ==
  /\ lastEvent.type = "keydown" /\ lastEvent.key = "E"
  /\ lastEvent.calls = 1 /\ lastEvent.target = 1
  /\ DistSq(shipPos, islands[1]) = Sq(29)

(***************************************************************************)
(* Properties of the ship and of the buoyancy steps.                       *)
(***************************************************************************)
\* C11: the ship's stamina stays within [0,1] in every reachable state, for
\* any interleaving of setBoost(), setMovementDirection() and update(dt)
\* with dt >= 0 of any size.
C11_StaminaWithinUnitInterval == stamina >= 0 /\ stamina <= StaminaScale

C11_Witness ==
  /\ lastShip.op = "update" /\ lastShip.arg = 1000
  /\ lastShip.isBoosting /\ movementDirection["forward"]
  /\ lastShip.stamina > 0 /\ stamina = 0

\* C12: after setBoost(true) in a state with stamina <= 0.1 the boost flag
\* is false, and it is true after setBoost(true) only if stamina > 0.1 at
\* the time of the call.
C12_BoostRefusedAtLowStamina ==
  (lastShip.op = "setBoost" /\ lastShip.arg = TRUE) =>
     (isBoosting <=> lastShip.stamina > boostThreshold)

C12_Witness ==
  /\ lastShip.op = "setBoost" /\ lastShip.arg = TRUE
  /\ lastShip.stamina = boostThreshold /\ ~isBoosting

\* C13: the submersion ratio computed by the ship's and by the chest's
\* buoyancy step is within [0,1] for every body height and water level.
C13_SubmersionWithinUnitInterval ==
  buoyancy.entity # "none" =>
     buoyancy.result.submerged >= 0 /\ buoyancy.result.submerged <= RatioScale

C13_Witness ==
  /\ buoyancy.entity = "ship"
  /\ buoyancy.y = -7000 /\ buoyancy.water = 7000
  /\ buoyancy.result.submerged = RatioScale

\* C18: in every frame in which handleMovement applies forward thrust at the
\* boosted magnitude, stamina is above 0.1; with stamina at or below 0.1 the
\* forward thrust is the unboosted acceleration x mass.
C18_BoostedThrustNeedsStamina ==
  (lastShip.op = "update" /\ lastShip.forward # 0) =>
     /\ lastShip.forward = BoostedThrust => lastShip.stamina > boostThreshold
     /\ lastShip.stamina <= boostThreshold => lastShip.forward = PlainThrust

\* C19: when the submersion ratio is exactly 0 the ship's buoyancy step
\* applies no buoyant force, no vertical damping and no horizontal drag and
\* leaves the body's height unchanged.
C19_NoBuoyancyWhenNotSubmerged ==
  (buoyancy.entity = "ship" /\ buoyancy.result.submerged = 0) =>
     /\ buoyancy.result.buoyant = 0
     /\ buoyancy.result.damping = 0
     /\ buoyancy.result.drag = 0
     /\ buoyancy.result.y = buoyancy.y

C19_Witness ==
  /\ buoyancy.entity = "ship" /\ buoyancy.result.submerged = 0
  /\ buoyancy.y = 300 /\ buoyancy.water = 0 /\ buoyancy.vy # 0
  /\ buoyancy.result.y = 300

InactiveBefore ==
  {i \in Ids : /\ i <= last.len
               /\ IF i = last.id THEN ~last.pre.active ELSE ~members[i].active}

\* C16: get() activates and returns the inactive member that is first in
\* insertion order if there is one, constructing and resetting nothing; it
\* constructs only when no member is inactive and length < maxSize; it
\* force-recycles only when no member is inactive and length = maxSize
\* (stated for pools with maxSize >= 1, whose get() cannot throw).
C16_PathsByInsertionOrder ==
  (last.op = "get" /\ maxSize >= 1) =>
     IF InactiveBefore # {}
     THEN /\ last.path = "reuse"
          /\ \A i \in InactiveBefore : last.id <= i
          /\ Len(pool) = last.len
          /\ members[last.id] = Activate(kind, last.pre)
     ELSE IF last.len < maxSize
     THEN last.path = "grow" /\ Len(pool) = last.len + 1
     ELSE last.path = "recycle" /\ last.len = maxSize

(***************************************************************************)
(* Properties of the water, of start-up and of the distance pass.          *)
(***************************************************************************)
\* the wave configurations the constructor was given
GivenWaves == IF waveOptions.given THEN waveOptions.waves ELSE DefaultWaves

\* C14: a wave configuration with a non-positive wavelength is rejected when
\* the GerstnerWater is constructed: construction fails with an error and
\* the wavelength is never replaced by a clamped value.
C14_NonPositiveWavelengthRejected ==
  (gerstnerWater.status # "none"
   /\ \E i \in 1..Len(GivenWaves) : GivenWaves[i].wavelength <= 0)
     => /\ gerstnerWater.status = "error"
        /\ \A i \in 1..Len(gerstnerWater.waves) :
              gerstnerWater.waves[i].L = GivenWaves[i].wavelength

\* C15: a frame runs only after init() has resolved, with everything init()
\* constructs in place; if an awaited load rejects, init() rejects and
\* animate() is never invoked.
C15_FramesOnlyAfterInit ==
  /\ frames > 0 => initPc = "resolved" /\ built = Everything
  /\ initPc = "rejected" => frames = 0 /\ chain \in {"catch", "failed"}

C15_Witness ==
  /\ initPc = "rejected" /\ chain = "failed"
  /\ built = {"environment", "ship", "bottles"}
  /\ frames = 0

\* where a placement must put a member: in the generationRadius band around
\* the player for a replacement, on the initial ring around the origin for
\* the initial placement
InPlace(op, k, pos) ==
  IF op = "pass"
  THEN /\ Abs(pos - playerPosition) >= BandStart(k)
       /\ Abs(pos - playerPosition) <= generationRadius
  ELSE IF k = "island" THEN Abs(pos) = initialIslandRadius
  ELSE Abs(pos) >= initialChestInner /\ Abs(pos) <= initialChestOuter

\* C17: after the distance pass (and after the initial placement) the
\* physics-body position and the visual position of every member that was
\* placed, not only its cached logical position, lie at the generated point.
C17_ReplacementPlacedAtNewPoint ==
  \A n \in 1..Len(lastPass.moved) :
     LET e == entities[lastPass.moved[n][1]] IN
     /\ InPlace(lastPass.op, poolingKind, e.logical)
     /\ InPlace(lastPass.op, poolingKind, e.bodyPos)
     /\ InPlace(lastPass.op, poolingKind, e.visualPos)

(***************************************************************************)
(* Properties settled last: reset, the frame, audio, overlays, counts.     *)
(***************************************************************************)
\* C22: reset() of a chest or of a pooled island leaves the member's active
\* flag, its scene and physics-world membership and the pool's order
\* unchanged, whether the member is active or not when reset() is called.
C22_ResetKeepsSlot ==
  [][last'.op = "reset" =>
       /\ pool' = pool
       /\ \A i \in Ids :
            /\ members'[i].active = members[i].active
            /\ members'[i].inScene = members[i].inScene
            /\ members'[i].inWorld = members[i].inWorld]_vars

C22_Witness ==
  /\ last.op = "reset" /\ kind = "chest"
  /\ last.pre.active /\ last.pre.opened
  /\ members[last.id].active /\ ~members[last.id].opened

\* C29: the boost flag implies positive stamina after every update() and
\* every setBoost(); an update that drains the stamina to 0 clears the flag,
\* and the flag becomes true again only by a setBoost(true) that is accepted.
C29_BoostingImpliesStamina ==
  /\ [](isBoosting => stamina > 0)
  /\ [][(~isBoosting /\ isBoosting') =>
          /\ lastShip'.op = "setBoost" /\ lastShip'.arg = TRUE
          /\ stamina > boostThreshold]_vars

C29_Witness ==
  /\ lastShip.op = "update"
  /\ lastShip.isBoosting /\ lastShip.stamina > 0
  /\ stamina = 0 /\ ~isBoosting

\* C24: whenever no overlay is in the document any more, ShipControls.enabled
\* is true again, however the overlay was closed (Escape or its close button).
C24_ControlsEnabledWithoutOverlay ==
  (loopStarted /\ overlaysOpen = 0 /\ overlaysFading = 0) => controlsEnabled

\* C27: at most one island overlay is open at any time: an 'E' key-down in
\* range while an overlay is displayed does not call interact() again.
C27_AtMostOneOverlay ==
  /\ overlaysOpen <= 1
  /\ (lastEvent.type = "keydown" /\ lastEvent.calls > 0) => overlaysOpen = lastEvent.calls

\* C26: once the project card of a chest has been dismissed, by its close
\* button, by Escape or by deactivation of the chest, the chest is closed
\* again, so that a later interact() opens it and shows the card again.
C26_ClosedAfterCardDismissed ==
  /\ lastCard \in {"click", "Escape", "deactivate"} => ~cardChest.opened
  /\ (lastCard = "interact" /\ cardChest.active) => cardsShown > 0

\* C30: each pooled island has at most one running floating tween, and none
\* while it is inactive, after any activate(), deactivate(), reset() and
\* forced recycling.
C30_AtMostOneFloatingTween ==
  \A i \in FloatingIslands :
    /\ RunningTweens(floating[i]) <= 1
    /\ ~floating[i].active => RunningTweens(floating[i]) = 0

\* C23: the audio sources are tried in list order, each at most once; a
\* source is tried only after every earlier one has failed, none after one
\* has loaded, and the chain comes to an end after at most three attempts.
C23_AudioFallbackInOrder ==
  /\ [](/\ Len(attempts) <= numSources
        /\ \A i \in 1..Len(attempts) :
             /\ attempts[i].source = i
             /\ i < Len(attempts) => attempts[i].outcome = "failed")
  /\ <>[](attempts[Len(attempts)].outcome # "pending")

C23_Witness ==
  /\ Len(attempts) = numSources
  /\ \A i \in 1..numSources : attempts[i].outcome = "failed"

\* C25: play() is never called before setBuffer() has run, and
\* ambientStarted is never set while no buffer is loaded.
C25_PlayOnlyWithBuffer ==
  /\ \A n \in 1..Len(played) : played[n]
  /\ ambientStarted => BufferSet

\* C21: every frame runs, in this order and each once, the physics step,
\* the ship's update, the pool updates, the distance pass, the wave time
\* advance and the render.
C21_FrameStepsInOrder ==
  physicsSteps > 0 =>
    lastSteps = <<"physics", "ship", "pools", "recycling", "waves", "render">>

\* C28: the distance pass keeps every member of the pool active: each
\* deactivation is followed by one get() that reuses an inactive member, so
\* get() takes neither the growth nor the forced-recycling path, in the pass
\* or in the initial placement, and the pool keeps its initial size.
C28_PassPreservesActiveCount ==
  /\ \A n \in 1..Len(lastPass.moved) : lastPass.moved[n][3] = "reuse"
  /\ placed => \A i \in EntityIds : entities[i].active
  /\ DOMAIN entities = EntityIds

C28_Witness ==
  /\ lastPass.op = "pass"
  /\ Len(lastPass.moved) = MaxEntities
  /\ \A i \in EntityIds : entities[i].active

====
